---- MODULE Spec2Model ----
(***************************************************************************)
(* magic_afm/data_readers.py: the path-keyed cache of open mappings        *)
(* (CACHED_OPEN_PATHS, __setstate__, eventually_evict_path), the ARDF      *)
(* chunk header and its checksum, the three tables of contents, the       *)
(* pointer-chase force-map reader and the Nanoscope force-volume worker.   *)
(***************************************************************************)
EXTENDS Integers, Sequences, FiniteSets, TLC

VARIABLES
    cache,      \* CACHED_OPEN_PATHS: path -> (mm, worker, path_lock) or NoEntry
    locked,     \* the threading.Lock objects that are held
    nOpens,     \* mappings opened so far; the identity of the next one
    parses,     \* path -> number of times the container was parsed
    evicts,     \* path -> number of times the entry was deleted
    idle,       \* path -> time since the last __setstate__ touched the entry
    obj,        \* file objects: position in __setstate__/ainitialize, fields
    watcher,    \* eviction threads: position, the lock read, time left
    nThreads,   \* how many file objects may be inside a call at once
    closed,     \* the mappings on which close() has been called
    data,       \* the mapped bytes of one chunk and its surroundings
    hdr,        \* the ARDFHeader unpacked from data, or NoHdr
    vres,       \* outcome of the last ARDFHeader.validate call
    okData,     \* the bytes on which validate last succeeded for hdr
    changed,    \* whether a byte of the file has been changed
    tocIn,      \* a table-of-contents chunk: header, pre-body, entry records
    tocOut,     \* what unpack made of it: status, entries, what it did in order
    vol,        \* a force-map volume: VSET chain, volume TOC, reader fields
    seen,       \* _seen_vsets: (line, point, vtype) -> node, 0 if absent
    gen,        \* the generator of iter_curves: position and local variables
    yielded,    \* (line, point) -> the curve iter_curves yielded in this pass
    lastGet,    \* the last get_curve call and what it returned or raised
    allRes,     \* what the last get_all_curves call returned or raised
    links,      \* chunks of a volume as linked on disk: tag, line, vtype, next
    sel,        \* what parse_volm made of the volume: reader chosen or error
    trav,       \* a reader operation walking the chain: position, outcome
    dInts,      \* FFVWorker.d_ints[r, c]: the raw deflection samples of a pixel
    zInts,      \* FFVWorker.z_ints[r, c]: the raw height samples of that pixel
    split,      \* BrukerWorkerBase.split: the number of approach samples
    fc          \* the last get_force_curve call and what it returned

cacheVars == <<cache, locked, nOpens, parses, evicts, idle, obj, watcher, nThreads, closed>>

chunkVars == <<data, hdr, vres, okData, changed>>

tocVars == <<tocIn, tocOut>>

readerVars == <<vol, seen, gen, yielded, lastGet, allRes>>

chainVars == <<links, sel, trav>>

brukerVars == <<dInts, zInts, split, fc>>

vars == <<cacheVars, chunkVars, tocVars, readerVars, chainVars, brukerVars>>

-----------------------------------------------------------------------------
(* Bounds and program constants *)

NumPaths == 1
NumObjs == 3
NumThreads == 2
Window == 10
TickLen == 5

Paths == 1..NumPaths
Objs == 1..NumObjs
Ids == 1..NumObjs

NoEntry == [mm |-> 0, worker |-> 0, lock |-> 0]

NewObj ==
    [pc |-> "new", kind |-> "none", path |-> 0, mm |-> 0, worker |-> 0,
     lock |-> 0, parsed |-> FALSE, evStart |-> 0, evEnd |-> 0,
     swallowed |-> FALSE]

NoWatcher == [pc |-> "none", path |-> 0, lock |-> 0, left |-> 0]

InCall(o) == obj[o].pc \in {"miss", "hit"}

\* File objects are unpickled in the order of their numbers.
MayEnter(o) ==
    /\ Cardinality({x \in Objs : InCall(x)}) < nThreads
    /\ \A x \in Objs : x < o => obj[x].pc # "new"

\* Paths are interchangeable: the next one not yet used is the lowest.
PathChoices == {p \in Paths : \A q \in 1..(p - 1) : \E x \in Objs : obj[x].path = q}

Min(a, b) == IF a < b THEN a ELSE b

Max(a, b) == IF a > b THEN a ELSE b

-----------------------------------------------------------------------------
(* ARDFFile.__setstate__ (the same code in ARH5File and NanoscopeFile) *)

\* try: mm, worker, path_lock = CACHED_OPEN_PATHS[self.path]
LookupAlwaysMiss(o) ==
    /\ obj[o].pc = "new"
    /\ MayEnter(o)
    /\ \E p \in PathChoices :
         obj' = [obj EXCEPT ![o] =
                   [@ EXCEPT !.kind = "setstate", !.path = p,
                             !.evStart = evicts[p], !.pc = "miss"]]
    /\ UNCHANGED <<cache, locked, nOpens, parses, evicts, idle, watcher, nThreads, closed>>

Lookup(o) ==
    /\ obj[o].pc = "new"
    /\ MayEnter(o)
    /\ \E p \in PathChoices :
         obj' = [obj EXCEPT ![o] =
                   IF cache[p] = NoEntry
                   THEN [@ EXCEPT !.kind = "setstate", !.path = p,
                                  !.evStart = evicts[p], !.pc = "miss"]
                   ELSE [@ EXCEPT !.kind = "setstate", !.path = p,
                                  !.evStart = evicts[p], !.pc = "hit",
                                  !.mm = cache[p].mm,
                                  !.worker = cache[p].worker,
                                  !.lock = cache[p].lock]]
    /\ UNCHANGED <<cache, locked, nOpens, parses, evicts, idle, watcher, nThreads, closed>>

\* except KeyError: mmap_path_read_only, parse_ardf, Lock(), path_lock.acquire(),
\* CACHED_OPEN_PATHS[self.path] = mm, worker, path_lock; Thread(...).start();
\* self._mm = mm; self._worker = worker.  Opening and parsing touch nothing
\* another thread reads, so they are taken in one step with the store.
OpenAndStore(o) ==
    LET p == obj[o].path
        n == nOpens + 1
    IN  /\ obj[o].pc = "miss"
        /\ nOpens' = n
        /\ parses' = [parses EXCEPT ![p] = @ + 1]
        /\ locked' = locked \cup {n}
        /\ cache' = [cache EXCEPT ![p] = [mm |-> n, worker |-> n, lock |-> n]]
        /\ watcher' = [watcher EXCEPT ![n] =
                         [pc |-> "start", path |-> p, lock |-> 0, left |-> 0]]
        /\ idle' = [idle EXCEPT ![p] = 0]
        /\ obj' = [obj EXCEPT ![o] =
                     [@ EXCEPT !.pc = "done", !.mm = n, !.worker = n,
                               !.lock = n, !.parsed = TRUE,
                               !.evEnd = evicts[p]]]
        /\ UNCHANGED <<evicts, nThreads, closed>>

\* else: try: path_lock.release() except RuntimeError: pass;
\* self._mm = mm; self._worker = worker
ReleaseRaises(o) ==
    /\ obj[o].pc = "hit"
    /\ locked' = locked \ {obj[o].lock}
    /\ idle' = [idle EXCEPT ![obj[o].path] = 0]
    /\ obj' = [obj EXCEPT ![o] =
                 IF obj[o].lock \in locked
                 THEN [@ EXCEPT !.pc = "done", !.evEnd = evicts[obj[o].path]]
                 ELSE [@ EXCEPT !.pc = "error", !.mm = 0, !.worker = 0]]
    /\ UNCHANGED <<cache, nOpens, parses, evicts, watcher, nThreads, closed>>

Release(o) ==
    /\ obj[o].pc = "hit"
    /\ locked' = locked \ {obj[o].lock}
    /\ idle' = [idle EXCEPT ![obj[o].path] = 0]
    /\ obj' = [obj EXCEPT ![o] =
                 [@ EXCEPT !.pc = "done", !.evEnd = evicts[obj[o].path],
                           !.swallowed = (obj[o].lock \notin locked)]]
    /\ UNCHANGED <<cache, nOpens, parses, evicts, watcher, nThreads, closed>>

-----------------------------------------------------------------------------
(* ARDFFile.ainitialize: opens and parses for itself, no cache access *)

AinitializeCached(o) ==
    /\ obj[o].pc = "new"
    /\ MayEnter(o)
    /\ \E p \in PathChoices :
         /\ cache[p] # NoEntry
         /\ obj' = [obj EXCEPT ![o] =
                      [@ EXCEPT !.kind = "direct", !.path = p, !.pc = "done",
                                !.mm = cache[p].mm, !.worker = cache[p].worker,
                                !.evStart = evicts[p], !.evEnd = evicts[p]]]
    /\ UNCHANGED <<cache, locked, nOpens, parses, evicts, idle, watcher, nThreads, closed>>

Ainitialize(o) ==
    /\ obj[o].pc = "new"
    /\ MayEnter(o)
    /\ nOpens' = nOpens + 1
    /\ \E p \in PathChoices :
         /\ parses' = [parses EXCEPT ![p] = @ + 1]
         /\ obj' = [obj EXCEPT ![o] =
                      [@ EXCEPT !.kind = "direct", !.path = p, !.pc = "done",
                                !.mm = nOpens + 1, !.worker = nOpens + 1,
                                !.parsed = TRUE,
                                !.evStart = evicts[p], !.evEnd = evicts[p]]]
    /\ UNCHANGED <<cache, locked, evicts, idle, watcher, nThreads, closed>>

-----------------------------------------------------------------------------
(* ARDFFile.aclose, NanoscopeFile.aclose *)

\* if self._mm is not None: self._mm.close(); the cache is not looked at
AClose(o) ==
    /\ obj[o].pc = "done"
    /\ obj[o].mm # 0
    /\ closed' = closed \cup {obj[o].mm}
    /\ obj' = [obj EXCEPT ![o] = [@ EXCEPT !.pc = "closed"]]
    /\ UNCHANGED <<cache, locked, nOpens, parses, evicts, idle, watcher, nThreads>>

-----------------------------------------------------------------------------
(* eventually_evict_path *)

\* path_lock = CACHED_OPEN_PATHS[path][-1]; the first acquire(timeout=10.0)
WatcherStart(w) ==
    /\ watcher[w].pc = "start"
    /\ watcher' = [watcher EXCEPT ![w] =
                     IF cache[watcher[w].path] = NoEntry
                     THEN [@ EXCEPT !.pc = "failed"]
                     ELSE [@ EXCEPT !.pc = "wait",
                                    !.lock = cache[watcher[w].path].lock,
                                    !.left = Window]]
    /\ UNCHANGED <<cache, locked, nOpens, parses, evicts, idle, obj, nThreads, closed>>

\* acquire returned True: someone reset the countdown, acquire again
WatcherAcquired(w) ==
    /\ watcher[w].pc = "wait"
    /\ watcher[w].lock \notin locked
    /\ locked' = locked \cup {watcher[w].lock}
    /\ watcher' = [watcher EXCEPT ![w] = [@ EXCEPT !.left = Window]]
    /\ UNCHANGED <<cache, nOpens, parses, evicts, idle, obj, nThreads, closed>>

\* acquire returned False: the loop ends
WatcherTimeout(w) ==
    /\ watcher[w].pc = "wait"
    /\ watcher[w].lock \in locked
    /\ watcher[w].left = 0
    /\ watcher' = [watcher EXCEPT ![w] = [@ EXCEPT !.pc = "evict"]]
    /\ UNCHANGED <<cache, locked, nOpens, parses, evicts, idle, obj, nThreads, closed>>

\* del CACHED_OPEN_PATHS[path]; return
WatcherKeepsEntry(w) ==
    /\ watcher[w].pc = "evict"
    /\ watcher' = [watcher EXCEPT ![w] = [@ EXCEPT !.pc = "done"]]
    /\ UNCHANGED <<cache, locked, nOpens, parses, evicts, idle, obj, nThreads, closed>>

WatcherEvict(w) ==
    /\ watcher[w].pc = "evict"
    /\ IF cache[watcher[w].path] = NoEntry
       THEN /\ watcher' = [watcher EXCEPT ![w] = [@ EXCEPT !.pc = "failed"]]
            /\ UNCHANGED <<cache, evicts>>
       ELSE /\ watcher' = [watcher EXCEPT ![w] = [@ EXCEPT !.pc = "done"]]
            /\ cache' = [cache EXCEPT ![watcher[w].path] = NoEntry]
            /\ evicts' = [evicts EXCEPT ![watcher[w].path] = @ + 1]
    /\ UNCHANGED <<locked, nOpens, parses, idle, obj, nThreads, closed>>

\* TickLen time units pass.  A blocked acquire returns as soon as the lock is
\* free or its timeout is over, so time does not pass over either.
Tick ==
    /\ \A w \in Ids : watcher[w].pc = "wait" =>
          /\ watcher[w].left > 0
          /\ watcher[w].lock \in locked
    /\ \/ \E w \in Ids : watcher[w].pc = "wait"
       \/ \E p \in Paths : cache[p] # NoEntry /\ idle[p] < Window
    /\ watcher' = [w \in Ids |->
                     IF watcher[w].pc = "wait"
                     THEN [watcher[w] EXCEPT !.left = Max(@ - TickLen, 0)]
                     ELSE watcher[w]]
    /\ idle' = [p \in Paths |-> Min(idle[p] + TickLen, Window)]
    /\ UNCHANGED <<cache, locked, nOpens, parses, evicts, obj, nThreads, closed>>


-----------------------------------------------------------------------------
(* ARDFHeader: unpack and validate, on bytes *)

MaxPayload == 1
MaxPrefix == 1

ByteVals == {0, 1, 86}

TagVSET == <<86, 83, 69, 84>>
TagTOFF == <<84, 79, 70, 70>>

NoHdr == [offset |-> 0, crc |-> <<>>, size |-> 0, name |-> <<>>, flags |-> 0]

NoRes == [out |-> "none", carried |-> NoHdr]

RECURSIVE Xor(_, _)
Xor(a, b) ==
    IF a = 0 THEN b
    ELSE IF b = 0 THEN a
    ELSE ((a + b) % 2) + 2 * Xor(a \div 2, b \div 2)

\* 32-bit values are kept as their four little-endian bytes.
Xor4(x, y) == <<Xor(x[1], y[1]), Xor(x[2], y[2]), Xor(x[3], y[3]), Xor(x[4], y[4])>>

Shr1(x) ==
    <<(x[1] \div 2) + 128 * (x[2] % 2), (x[2] \div 2) + 128 * (x[3] % 2),
      (x[3] \div 2) + 128 * (x[4] % 2), x[4] \div 2>>

Shr8(x) == <<x[2], x[3], x[4], 0>>

\* 0x04C11DB7 reflected: 0xEDB88320
CrcPoly == <<32, 131, 184, 237>>

Ones == <<255, 255, 255, 255>>

RECURSIVE CrcBits(_, _)
CrcBits(x, n) ==
    IF n = 0 THEN x
    ELSE CrcBits(IF x[1] % 2 = 1 THEN Xor4(Shr1(x), CrcPoly) ELSE Shr1(x), n - 1)

CrcTable == [b \in 0..255 |-> CrcBits(<<b, 0, 0, 0>>, 8)]

RECURSIVE CrcFeed(_, _, _)
CrcFeed(c, bytes, i) ==
    IF i > Len(bytes) THEN c
    ELSE CrcFeed(Xor4(CrcTable[Xor(c[1], bytes[i])], Shr8(c)), bytes, i + 1)

\* zlib.crc32(bytes)
Crc32(bytes) == Xor4(CrcFeed(Ones, bytes, 1), Ones)

U32(b) == b[1] + 256 * b[2] + 65536 * b[3] + 16777216 * b[4]

\* buf[start:stop] of Python, positions counted from 0
PySlice(buf, start, stop) == SubSeq(buf, start + 1, Min(stop, Len(buf)))

\* struct.unpack_from("<LL4sL", data, offset)
UnpackHeader(buf, offset) ==
    [offset |-> offset,
     crc |-> PySlice(buf, offset, offset + 4),
     size |-> U32(PySlice(buf, offset + 4, offset + 8)),
     name |-> PySlice(buf, offset + 8, offset + 12),
     flags |-> U32(PySlice(buf, offset + 12, offset + 16))]

CrcRangeFromOffset(buf, h) == PySlice(buf, h.offset, h.offset + h.size)

\* memoryview(self.data)[self.offset + 4 : self.offset + self.size]
CrcRange(buf, h) == PySlice(buf, h.offset + 4, h.offset + h.size)

\* ARDFHeader.validate: True, or ValueError(message, self)
ValidateResult(buf, h) ==
    IF h.crc # Crc32(CrcRange(buf, h))
    THEN [out |-> "raise", carried |-> h]
    ELSE [out |-> "ok", carried |-> NoHdr]

Diffs(a, b) == {i \in 1..Len(a) : a[i] # b[i]}

\* a chunk as the instrument writes it: checksum over size, tag, flags, payload
MakeChunk(name, flags, payload) ==
    LET body == <<16 + Len(payload), 0, 0, 0>> \o name \o flags \o payload
    IN  Crc32(body) \o body

Payloads == UNION {[1..n -> ByteVals] : n \in 0..MaxPayload}

Paddings == UNION {[1..n -> {0}] : n \in 0..MaxPrefix}

\* a chunk somewhere in the file, one more byte after it
InitChunk ==
    /\ \E pre \in Paddings, p \in Payloads, name \in {TagVSET, TagTOFF} :
         data = pre \o MakeChunk(name, <<0, 0, 0, 0>>, p) \o <<0>>
    /\ hdr = NoHdr
    /\ vres = NoRes
    /\ okData = <<>>
    /\ changed = FALSE

IdleChunk ==
    /\ data = <<>>
    /\ hdr = NoHdr
    /\ vres = NoRes
    /\ okData = <<>>
    /\ changed = FALSE

\* ARDFHeader.unpack(data, offset)
Unpack ==
    /\ \E offset \in 0..MaxPrefix :
         /\ offset + 16 <= Len(data)
         /\ hdr' = UnpackHeader(data, offset)
    /\ vres' = NoRes
    /\ okData' = <<>>
    /\ UNCHANGED <<data, changed>>

\* header.validate()
Validate ==
    /\ hdr # NoHdr
    /\ vres' = ValidateResult(data, hdr)
    /\ okData' = IF vres'.out = "ok" THEN data ELSE okData
    /\ UNCHANGED <<data, hdr, changed>>

\* one byte of the file gets another value (once)
Corrupt ==
    /\ ~changed
    /\ changed' = TRUE
    /\ \E i \in 1..Len(data), v \in ByteVals :
         /\ data[i] # v
         /\ data' = [data EXCEPT ![i] = v]
    /\ vres' = NoRes
    /\ UNCHANGED <<hdr, okData>>

NextChunk ==
    \/ Unpack /\ UNCHANGED <<cacheVars, tocVars, readerVars, chainVars, brukerVars>>
    \/ Validate /\ UNCHANGED <<cacheVars, tocVars, readerVars, chainVars, brukerVars>>
    \/ Corrupt /\ UNCHANGED <<cacheVars, tocVars, readerVars, chainVars, brukerVars>>


-----------------------------------------------------------------------------
(* The three tables of contents, on decoded fields.  A chunk header is its  *)
(* size, its tag and whether its checksum matches (what validate finds).    *)

MaxEntries == 2

HeaderSize == 32
GenericStride == 24
TextStride == 32
VolumeStride == 40

GenericTags == {"IMAG", "VOLM", "NEXT", "THMB", "NSET"}

TocKinds == {"generic", "text", "volume"}

EntryTag(kind) ==
    IF kind = "generic" THEN "IMAG" ELSE IF kind = "text" THEN "TOFF" ELSE "VOFF"

TocTag(kind) ==
    IF kind = "generic" THEN "FTOC" ELSE IF kind = "text" THEN "TTOC" ELSE "VTOC"

KindStride(kind) ==
    IF kind = "generic" THEN GenericStride
    ELSE IF kind = "text" THEN TextStride ELSE VolumeStride

\* what one unpack call did, in order
Validated(c) == [ev |-> "validated", of |-> c]
ReadRec(c) == [ev |-> "read", of |-> c]
Used(c) == [ev |-> "used", of |-> c]

TocFail(status, log) == [status |-> status, entries |-> <<>>, log |-> log]

TocOk(entries, log) == [status |-> "ok", entries |-> entries, log |-> log]

\* len(range(offset + 32, offset + size, stride))
RangeLen(size, stride) ==
    IF size <= HeaderSize THEN 0 ELSE ((size - HeaderSize - 1) \div stride) + 1

RECURSIVE ScanEntriesPastNull(_, _, _, _, _)
ScanEntriesPastNull(t, tags, i, acc, log) ==
    IF i > RangeLen(t.size, t.stride) THEN TocOk(acc, log)
    ELSE IF i > Len(t.recs) THEN TocFail("struct.error", log)
    ELSE LET r == t.recs[i]
             log1 == log \o <<ReadRec(i), Used(i)>>
         IN  IF r.ptr = 0 THEN ScanEntriesPastNull(t, tags, i + 1, acc, log1)
             ELSE IF r.name \notin tags THEN TocFail("ValueError", log1)
             ELSE IF ~r.ok THEN TocFail("ChecksumError", log1)
             ELSE ScanEntriesPastNull(t, tags, i + 1, Append(acc, r),
                                      log1 \o <<Validated(i)>>)

\* for toc_offset in range(...): the loop of ARDFTableOfContents.unpack (tags
\* IMAG, VOLM, NEXT, THMB, NSET) and of ARDFTextTableOfContents.unpack (TOFF)
RECURSIVE ScanEntries(_, _, _, _, _)
ScanEntries(t, tags, i, acc, log) ==
    IF i > RangeLen(t.size, t.stride) THEN TocOk(acc, log)
    ELSE IF i > Len(t.recs) THEN TocFail("struct.error", log)
    ELSE LET r == t.recs[i]
             log1 == log \o <<ReadRec(i), Used(i)>>
         IN  IF r.ptr = 0 THEN TocOk(acc, log1)
             ELSE IF r.name \notin tags THEN TocFail("ValueError", log1)
             ELSE IF ~r.ok THEN TocFail("ChecksumError", log1)
             ELSE ScanEntries(t, tags, i + 1, Append(acc, r),
                              log1 \o <<Validated(i)>>)

\* assert stride == 24 (32, 40)
StrideAsserted(t, stride) == t.stride = stride

SizeUnchecked(t) == TRUE

\* assert size - 32 == nentries * stride
SizeAsserted(t) == t.size - HeaderSize = t.nentries * t.stride

\* ARDFTableOfContents.unpack
UnpackGeneric(t) ==
    IF t.hdr.size # HeaderSize THEN TocFail("ValueError", <<>>)
    ELSE IF ~t.hdr.ok THEN TocFail("ChecksumError", <<>>)
    ELSE LET log == <<Validated(0), Used(0)>>
         IN  IF ~StrideAsserted(t, GenericStride) THEN TocFail("AssertionError", log)
             ELSE IF ~SizeAsserted(t) THEN TocFail("AssertionError", log)
             ELSE ScanEntries(t, GenericTags, 1, <<>>, log)

\* ARDFTextTableOfContents.unpack
UnpackText(t) ==
    IF t.hdr.size # HeaderSize \/ t.hdr.name # "TTOC" THEN TocFail("ValueError", <<>>)
    ELSE IF ~t.hdr.ok THEN TocFail("ChecksumError", <<>>)
    ELSE LET log == <<Validated(0), Used(0)>>
         IN  IF ~StrideAsserted(t, TextStride) THEN TocFail("AssertionError", log)
             ELSE IF ~SizeAsserted(t) THEN TocFail("AssertionError", log)
             ELSE ScanEntries(t, {"TOFF"}, 1, <<>>, log)

\* the loop of ARDFVolumeTableOfContents.unpack; a zero checksum ends it
RECURSIVE ScanVolume(_, _, _, _)
ScanVolume(t, i, acc, log) ==
    IF i > RangeLen(t.size, t.stride) THEN TocOk(acc, log)
    ELSE IF i > Len(t.recs) THEN TocFail("struct.error", log)
    ELSE LET r == t.recs[i]
             log1 == log \o <<ReadRec(i)>>
         IN  IF r.crc = 0 THEN TocOk(acc, log1)
             ELSE IF r.name # "VOFF" THEN TocFail("ValueError", log1)
             ELSE IF ~r.ok THEN TocFail("ChecksumError", log1)
             ELSE ScanVolume(t, i + 1, Append(acc, r),
                             log1 \o <<Validated(i), Used(i)>>)

\* ARDFVolumeTableOfContents.unpack: the header is not validated
UnpackVolume(t) ==
    IF t.hdr.size # HeaderSize \/ t.hdr.name # "VTOC" THEN TocFail("ValueError", <<>>)
    ELSE LET log == <<Used(0)>>
         IN  IF ~StrideAsserted(t, VolumeStride) THEN TocFail("AssertionError", log)
             ELSE IF ~SizeAsserted(t) THEN TocFail("AssertionError", log)
             ELSE ScanVolume(t, 1, <<>>, log)

\* entry records as found in files: a good one, zero fill, a foreign tag,
\* a checksum that does not match, and padding that is not all zero: a null
\* pointer or a zero checksum in a record whose other fields are set
GoodRec(kind, i) ==
    [name |-> EntryTag(kind), crc |-> 1, ok |-> TRUE, ptr |-> 100 + i,
     line |-> i - 1, point |-> 0]

ZeroRec == [name |-> "", crc |-> 0, ok |-> TRUE, ptr |-> 0, line |-> 0, point |-> 0]

RecChoices(kind, i) ==
    {GoodRec(kind, i), ZeroRec,
     [GoodRec(kind, i) EXCEPT !.name = "XXXX"],
     [GoodRec(kind, i) EXCEPT !.ok = FALSE],
     [GoodRec(kind, i) EXCEPT !.name = "XXXX", !.ok = FALSE, !.ptr = 0],
     [GoodRec(kind, i) EXCEPT !.name = "XXXX", !.ok = FALSE, !.crc = 0]}

RecSeqs(kind) ==
    UNION {{q \in [1..n -> UNION {RecChoices(kind, i) : i \in 1..n}] :
              \A i \in 1..n : q[i] \in RecChoices(kind, i)} : n \in 0..MaxEntries}

NoToc == [status |-> "none", entries |-> <<>>, log |-> <<>>]

InitToc ==
    /\ \E kind \in TocKinds, hsize \in {HeaderSize, 16}, hok \in BOOLEAN,
          stride \in {GenericStride, TextStride, VolumeStride},
          n \in 0..MaxEntries, extra \in {0, 8} :
         \E recs \in RecSeqs(kind), hname \in {TocTag(kind), "XDEF"},
            size \in {HeaderSize + n * stride + extra, 0} :
              tocIn = [kind |-> kind,
                       hdr |-> [size |-> hsize, name |-> hname, ok |-> hok],
                       size |-> size, nentries |-> n, stride |-> stride,
                       recs |-> recs]
    /\ tocOut = [by |-> "none", res |-> NoToc]

IdleToc ==
    /\ tocIn = <<>>
    /\ tocOut = [by |-> "none", res |-> NoToc]

DoUnpackGeneric ==
    /\ tocOut.by = "none"
    /\ tocOut' = [by |-> "generic", res |-> UnpackGeneric(tocIn)]
    /\ UNCHANGED tocIn

DoUnpackText ==
    /\ tocOut.by = "none"
    /\ tocOut' = [by |-> "text", res |-> UnpackText(tocIn)]
    /\ UNCHANGED tocIn

DoUnpackVolume ==
    /\ tocOut.by = "none"
    /\ tocOut' = [by |-> "volume", res |-> UnpackVolume(tocIn)]
    /\ UNCHANGED tocIn

NextToc ==
    \/ DoUnpackGeneric /\ UNCHANGED <<cacheVars, chunkVars, readerVars, chainVars, brukerVars>>
    \/ DoUnpackText /\ UNCHANGED <<cacheVars, chunkVars, readerVars, chainVars, brukerVars>>
    \/ DoUnpackVolume /\ UNCHANGED <<cacheVars, chunkVars, readerVars, chainVars, brukerVars>>


-----------------------------------------------------------------------------
(* The pointer-chase reader of a force-map volume, on decoded nodes.  A     *)
(* pointer is a position in the VSET chain; one past the end is a chunk     *)
(* that is not a VSET.                                                      *)

NumLines == 3
NumPoints == 2
NFloats == 4

NANOMETER_UNIT_CONVERSION == 1000000000

VTypes == {2, 10, 11}

Keys == (0..(NumLines - 1)) \X (0..(NumPoints - 1)) \X VTypes

Pixels == (0..(NumLines - 1)) \X (0..(NumPoints - 1))

Unbound == <<>>

NoLocals == [zxr |-> Unbound, dxr |-> Unbound]

Reverse(a) == [i \in 1..Len(a) |-> a[Len(a) + 1 - i]]

SlForward(a, rev) == a

\* sl = np.s_[::-1] if the lines run downwards, else np.s_[:]
Sl(a, rev) == IF rev THEN Reverse(a) ELSE a

\* ndarray.searchsorted(v), side left, on positions counted from 0
RECURSIVE Bisect(_, _, _, _)
Bisect(a, v, lo, hi) ==
    IF lo >= hi THEN lo
    ELSE LET mid == (lo + hi) \div 2
         IN  IF a[mid + 1] < v THEN Bisect(a, v, mid + 1, hi)
             ELSE Bisect(a, v, lo, mid)

SearchSorted(a, v) == Bisect(a, v, 0, Len(a))

\* ARDFVdata.get_ndarray
GetNdarray(vdat) ==
    [i \in 1..vdat.nfloats |-> vdat.floats[i] * NANOMETER_UNIT_CONVERSION]

Zname(channels) == IF "Raw" \in DOMAIN channels THEN "Raw" ELSE "ZSnsr"

\* for vdat in self.traverse_vdats(...): the body shared by get_curve and
\* iter_curves; loc are the local variables zxr and dxr
RECURSIVE ReadVdats(_, _, _, _)
ReadVdats(vdats, i, channels, loc) ==
    IF i > Len(vdats) THEN loc
    ELSE LET vdat == vdats[i]
             s == vdat.seg_offsets
             a == GetNdarray(vdat)
             xr == <<PySlice(a, 0, s[2]), PySlice(a, s[2], s[3])>>
         IN  ReadVdats(vdats, i + 1, channels,
                 IF vdat.channel = channels[Zname(channels)]
                 THEN [loc EXCEPT !.zxr = xr]
                 ELSE IF vdat.channel = channels["Defl"]
                 THEN [loc EXCEPT !.dxr = xr]
                 ELSE loc)

RememberOnlyLast(s, key, ptr) == [k \in DOMAIN s |-> IF k = key THEN ptr ELSE 0]

\* traverse_vsets records a node under its index unless one is there already
Remember(s, key, ptr) == IF s[key] = 0 THEN [s EXCEPT ![key] = ptr] ELSE s

NodeKey(nd) == <<nd.line, nd.point, nd.vtype>>

WalkRowSkipped(v, ptr, r, s) == s

RECURSIVE WalkRowToEnd(_, _, _, _)
WalkRowToEnd(v, ptr, r, s) ==
    IF ptr > Len(v.chain) THEN s
    ELSE WalkRowToEnd(v, ptr + 1, r, Remember(s, NodeKey(v.chain[ptr]), ptr))

\* for vset in self.traverse_vsets(pointer): if vset.line != r: break
RECURSIVE WalkRow(_, _, _, _)
WalkRow(v, ptr, r, s) ==
    IF ptr > Len(v.chain) THEN s
    ELSE LET nd == v.chain[ptr]
             s1 == Remember(s, NodeKey(nd), ptr)
         IN  IF nd.line # r THEN s1 ELSE WalkRow(v, ptr + 1, r, s1)

\* self._seen_vsets looked up under any index: 0 when the index is not in it
Cached(s, key) == IF key \in DOMAIN s THEN s[key] ELSE 0

\* the number of VSET headers that loop unpacks
RECURSIVE WalkLen(_, _, _)
WalkLen(v, ptr, r) ==
    IF ptr > Len(v.chain) THEN 0
    ELSE IF v.chain[ptr].line # r THEN 1
    ELSE 1 + WalkLen(v, ptr + 1, r)

\* np.full(shape=(2, 2, 100), fill_value=np.nan)
PlaceholderShape == <<2, 2, 100>>

\* what a get_curve call gave and did: bisected tells whether the line
\* column was searched, start is the pointer the chain walk began at (0 if
\* none) and walked the number of nodes it unpacked
GetResult(status, loc, s) ==
    [status |-> status, curve |-> loc, seen |-> s, shape |-> <<>>,
     bisected |-> FALSE, start |-> 0, walked |-> 0]

InBoundsInclusive(v, r, c) == 0 <= r /\ r <= v.lines /\ 0 <= c /\ c <= v.points

\* 0 <= r < self.lines and 0 <= c < self.points
InBounds(v, r, c) == 0 <= r /\ r < v.lines /\ 0 <= c /\ c < v.points

RowFoundLoose(lines, i, r) == i < Len(lines)

\* not (i >= len(self.vtoc.lines) or r != int(self.vtoc.lines[sl][i]))
RowFound(lines, i, r) == i < Len(lines) /\ r = lines[i + 1]

\* ARDFForceMapReader.get_curve
GetCurveOf(v, s, r, c) ==
    IF ~InBounds(v, r, c)
    THEN GetResult("ValueError", NoLocals, s)
    ELSE LET curve == <<r, c, v.vtype>>
             rev == v.vtoc.lines[1] > v.vtoc.lines[Len(v.vtoc.lines)]
             lines == Sl(v.vtoc.lines, rev)
             pointers == Sl(v.vtoc.pointers, rev)
             i == SearchSorted(lines, r)
             miss == Cached(s, curve) = 0
         IN  IF miss /\ ~RowFound(lines, i, r)
             THEN [GetResult("nan", NoLocals, s) EXCEPT
                      !.shape = PlaceholderShape, !.bisected = TRUE]
             ELSE LET s1 == IF miss
                            THEN WalkRow(v, pointers[i + 1], r, s) ELSE s
                      did == [bisected |-> miss,
                              start |-> IF miss THEN pointers[i + 1] ELSE 0,
                              walked |-> IF miss
                                         THEN WalkLen(v, pointers[i + 1], r)
                                         ELSE 0]
                      Result(status, loc) ==
                          [GetResult(status, loc, s1) EXCEPT
                              !.bisected = did.bisected, !.start = did.start,
                              !.walked = did.walked]
                  IN  IF Cached(s1, curve) = 0 THEN Result("KeyError", NoLocals)
                      ELSE LET loc == ReadVdats(v.chain[s1[curve]].vdats, 1,
                                                v.channels, NoLocals)
                           IN  IF loc.zxr = Unbound \/ loc.dxr = Unbound
                               THEN Result("UnboundLocalError", NoLocals)
                               ELSE Result("ok", loc)

\* ARDFForceMapReader.iter_curves, from a resumption to the next yield
RECURSIVE Resume(_, _, _, _)
Resume(v, ptr, loc, s) ==
    IF ptr > Len(v.chain)
    THEN [status |-> "done", ptr |-> ptr, loc |-> loc, seen |-> s, key |-> <<>>]
    ELSE LET nd == v.chain[ptr]
             s1 == Remember(s, NodeKey(nd), ptr)
         IN  IF nd.vtype # v.vtype THEN Resume(v, ptr + 1, loc, s1)
             ELSE LET loc1 == ReadVdats(nd.vdats, 1, v.channels, loc)
                  IN  IF loc1.zxr = Unbound \/ loc1.dxr = Unbound
                      THEN [status |-> "UnboundLocalError", ptr |-> ptr,
                            loc |-> loc1, seen |-> s1, key |-> <<>>]
                      ELSE [status |-> "running", ptr |-> ptr + 1,
                            loc |-> loc1, seen |-> s1,
                            key |-> <<nd.line, nd.point>>]

NoVdat == [channel |-> -1, nfloats |-> 0, seg_offsets |-> <<0, 0, 0>>, floats |-> <<>>]

\* the local variables of get_all_curves: zvdat, dvdat, vdat, minext and
\* the dict vdats, whose keys are kept in order of insertion
NoAllLocals ==
    [zvdat |-> NoVdat, dvdat |-> NoVdat, vdat |-> NoVdat, minext |-> NFloats + 1,
     keys |-> <<>>, vdats |-> [px \in Pixels |-> <<NoVdat, NoVdat>>]]

\* for vdat in self.traverse_vdats(...) of get_all_curves: the height is
\* taken from the channel named ZSnsr
RECURSIVE PickVdats(_, _, _, _)
PickVdats(vdats, i, channels, loc) ==
    IF i > Len(vdats) THEN loc
    ELSE LET vdat == vdats[i]
             loc1 == IF vdat.channel = channels["ZSnsr"]
                     THEN [loc EXCEPT !.zvdat = vdat, !.vdat = vdat]
                     ELSE IF vdat.channel = channels["Defl"]
                     THEN [loc EXCEPT !.dvdat = vdat, !.vdat = vdat]
                     ELSE [loc EXCEPT !.vdat = vdat]
         IN  PickVdats(vdats, i + 1, channels, loc1)

\* the first loop of get_all_curves over the whole chain
RECURSIVE CollectAll(_, _, _, _)
CollectAll(v, ptr, loc, s) ==
    IF ptr > Len(v.chain) THEN [status |-> "ok", loc |-> loc, seen |-> s]
    ELSE LET nd == v.chain[ptr]
             s1 == Remember(s, NodeKey(nd), ptr)
         IN  IF nd.vtype # v.vtype THEN CollectAll(v, ptr + 1, loc, s1)
             ELSE LET loc1 == PickVdats(nd.vdats, 1, v.channels, loc)
                      px == <<nd.line, nd.point>>
                  IN  IF loc1.zvdat = NoVdat \/ loc1.dvdat = NoVdat
                         \/ loc1.vdat = NoVdat
                      THEN [status |-> "UnboundLocalError", loc |-> loc1,
                            seen |-> s1]
                      ELSE CollectAll(v, ptr + 1,
                             [loc1 EXCEPT
                                !.vdats[px] = <<loc1.zvdat, loc1.dvdat>>,
                                !.keys = IF \E j \in 1..Len(loc1.keys) :
                                                loc1.keys[j] = px
                                         THEN loc1.keys
                                         ELSE Append(loc1.keys, px),
                                !.minext = Min(loc1.minext,
                                               loc1.vdat.seg_offsets[2])],
                             s1)

\* x[r, c, :, :] = zvdat.get_ndarray()[sl], dvdat.get_ndarray()[sl], seen
\* through the final reshape: (height, deflection) x (first, second half)
Trimmed(pair, minext) ==
    LET floats == pair[1].seg_offsets[2] * 2
        minfloats == 2 * minext
        halfextra == (floats - minfloats) \div 2
        z == PySlice(GetNdarray(pair[1]), halfextra, minfloats + halfextra)
        d == PySlice(GetNdarray(pair[2]), halfextra, minfloats + halfextra)
    IN  [zxr |-> <<PySlice(z, 0, minext), PySlice(z, minext, minfloats)>>,
         dxr |-> <<PySlice(d, 0, minext), PySlice(d, minext, minfloats)>>,
         full |-> Len(z) = minfloats /\ Len(d) = minfloats]

NoAll == [status |-> "none", minext |-> 0, x |-> <<>>]

\* ARDFForceMapReader.get_all_curves; an entry of np.empty that is never
\* assigned holds whatever the memory held, written here as NoLocals
GetAllCurvesOf(v, s) ==
    LET col == CollectAll(v, v.vtoc.pointers[1], NoAllLocals, s)
        m == col.loc.minext
        stored == {col.loc.keys[j] : j \in 1..Len(col.loc.keys)}
    IN  IF col.status # "ok"
        THEN [status |-> col.status, minext |-> 0, x |-> <<>>, seen |-> col.seen]
        ELSE IF \E px \in stored : ~Trimmed(col.loc.vdats[px], m).full
        THEN [status |-> "ValueError", minext |-> m, x |-> <<>>, seen |-> col.seen]
        ELSE [status |-> "ok", minext |-> m,
              x |-> [px \in Pixels |->
                       IF px \in stored
                       THEN [zxr |-> Trimmed(col.loc.vdats[px], m).zxr,
                             dxr |-> Trimmed(col.loc.vdats[px], m).dxr]
                       ELSE NoLocals],
              seen |-> col.seen]

\* float samples that differ from node to node and channel to channel
RECURSIVE Digits(_, _)
Digits(x, n) == IF n = 0 THEN <<>> ELSE <<x % 3>> \o Digits(x \div 3, n - 1)

MakeVdat(k, ch, line) ==
    [channel |-> ch, nfloats |-> NFloats,
     seg_offsets |-> <<0, 1 + (line % 2), NFloats - 1 + (line % 2)>>,
     floats |-> Digits(3 * (k - 1) + ch, NFloats)]

MakeNode(k, line, point, vtype, kept) ==
    [line |-> line, point |-> point, vtype |-> vtype,
     vdats |-> [i \in 1..kept |-> MakeVdat(k, i - 1, line)]]

ChannelsOf(hasRaw) ==
    IF hasRaw THEN [Raw |-> 0, Defl |-> 1, ZSnsr |-> 2]
    ELSE [Defl |-> 0, ZSnsr |-> 1]

\* a scan upwards or downwards that stores every step-th line, stopped
\* after rowsDone rows of which the last holds lastPts points, storing trace
\* and retrace or one of them; of the last node written only the first kept
\* data chunks are stored
MakeVolume(down, step, rowsDone, lastPts, both, hasRaw, kept) ==
    LET per == IF both THEN 2 ELSE 1
        n == per * ((rowsDone - 1) * NumPoints + lastPts)
        lineOf(j) == IF down THEN NumLines - 1 - step * (j - 1)
                     ELSE step * (j - 1)
        nchan == IF hasRaw THEN 3 ELSE 2
        node(k) == LET pix == (k - 1) \div per
                       j == (pix \div NumPoints) + 1
                   IN  MakeNode(k, lineOf(j), pix % NumPoints,
                                IF both THEN 10 + ((k - 1) % per) ELSE 2,
                                IF k = n THEN Min(kept, nchan) ELSE nchan)
    IN  [chain |-> [k \in 1..n |-> node(k)],
         vtoc |-> [lines |-> [j \in 1..rowsDone |-> lineOf(j)],
                   pointers |-> [j \in 1..rowsDone |->
                                    per * (j - 1) * NumPoints + 1]],
         lines |-> NumLines, points |-> NumPoints,
         vtype |-> IF both THEN 10 ELSE 2,
         channels |-> ChannelsOf(hasRaw)]

NoGen == [status |-> "none", ptr |-> 0, loc |-> NoLocals]

NoGet ==
    [r |-> -1, c |-> -1, status |-> "none", curve |-> NoLocals, shape |-> <<>>,
     bisected |-> FALSE, start |-> 0, walked |-> 0]

InitReader ==
    /\ \E down \in BOOLEAN, step \in 1..2, rowsDone \in 1..NumLines,
          lastPts \in 1..NumPoints, both \in BOOLEAN, hasRaw \in BOOLEAN,
          kept \in 1..3 :
         /\ step * (rowsDone - 1) < NumLines
         /\ vol = MakeVolume(down, step, rowsDone, lastPts, both, hasRaw, kept)
    /\ seen = [key \in Keys |-> 0]
    /\ gen = NoGen
    /\ yielded = [px \in Pixels |-> NoLocals]
    /\ lastGet = NoGet
    /\ allRes = NoAll

IdleReader ==
    /\ vol = <<>>
    /\ seen = <<>>
    /\ gen = NoGen
    /\ yielded = <<>>
    /\ lastGet = NoGet
    /\ allRes = NoAll

GetCurve(r, c) ==
    \E res \in {GetCurveOf(vol, seen, r, c)} :
        /\ lastGet' = [r |-> r, c |-> c, status |-> res.status,
                       curve |-> res.curve, shape |-> res.shape,
                       bisected |-> res.bisected, start |-> res.start,
                       walked |-> res.walked]
        /\ seen' = res.seen
        /\ UNCHANGED <<vol, gen, yielded, allRes>>

IterCurves ==
    /\ gen' = [status |-> "running", ptr |-> vol.vtoc.pointers[1],
               loc |-> NoLocals]
    /\ yielded' = [px \in Pixels |-> NoLocals]
    /\ UNCHANGED <<vol, seen, lastGet, allRes>>

IterNext ==
    /\ gen.status = "running"
    /\ \E res \in {Resume(vol, gen.ptr, gen.loc, seen)} :
           /\ gen' = [status |-> res.status, ptr |-> res.ptr, loc |-> res.loc]
           /\ seen' = res.seen
           /\ yielded' = IF res.status = "running"
                         THEN [yielded EXCEPT ![res.key] = res.loc]
                         ELSE yielded
    /\ UNCHANGED <<vol, lastGet, allRes>>

GetAllCurves ==
    \E res \in {GetAllCurvesOf(vol, seen)} :
        /\ allRes' = [status |-> res.status, minext |-> res.minext, x |-> res.x]
        /\ seen' = res.seen
        /\ UNCHANGED <<vol, gen, yielded, lastGet>>

\* the pixels of the grid and one index beyond each edge
GetInputs ==
    Pixels \cup {<<-1, 0>>, <<NumLines, 0>>, <<0, -1>>, <<0, NumPoints>>}

NextReader ==
    \/ \E rc \in GetInputs :
          GetCurve(rc[1], rc[2]) /\ UNCHANGED <<cacheVars, chunkVars, tocVars, chainVars, brukerVars>>
    \/ IterCurves /\ UNCHANGED <<cacheVars, chunkVars, tocVars, chainVars, brukerVars>>
    \/ IterNext /\ UNCHANGED <<cacheVars, chunkVars, tocVars, chainVars, brukerVars>>
    \/ GetAllCurves /\ UNCHANGED <<cacheVars, chunkVars, tocVars, chainVars, brukerVars>>


-----------------------------------------------------------------------------
(* Volume parsing and chain traversal, one loop iteration at a time, on     *)
(* chunks linked in any way the next-node offsets of a file can link them.  *)
(* Position NumChunks + 1 holds no VSET chunk.                              *)

NumChunks == 3
GridLines == 2
GridPoints == 2
MaxOut == 4

Positions == 1..(NumChunks + 1)

\* the chunk header found at a pointer
TagAt(ls, ptr) == IF ptr \in 1..Len(ls) THEN ls[ptr].tag ELSE ""

\* not np.any(np.diff(np.diff(vtoc.pointers)))
Regular(pointers) ==
    \A j \in 1..(Len(pointers) - 2) :
        (pointers[j + 2] - pointers[j + 1]) - (pointers[j + 1] - pointers[j]) = 0

DenseGateOpen == TRUE

\* the literal 0 that leads the condition of the dense-stride branch
DenseGate == FALSE

\* vtoc is the volume table of contents as the file holds it; lines, points
\* and pointers are the columns its unpack returned
NoSel ==
    [status |-> "none", reader |-> "none", vtype |-> 0, pointers |-> <<>>,
     complete |-> FALSE, regular |-> FALSE, msg |-> "", tag |-> "",
     vtoc |-> <<>>, lines |-> <<>>, points |-> <<>>]

\* the end of ARDFVolume.parse_volm: the reader for the volume
SelectReader(ls, nsets, pointers) ==
    LET complete == GridPoints * GridLines = nsets
        regular == Regular(pointers)
        first == pointers[1]
        base == [NoSel EXCEPT !.pointers = pointers, !.complete = complete,
                              !.regular = regular]
    IN  IF pointers = <<>>
        THEN [base EXCEPT !.status = "IndexError",
                          !.msg = "index 0 is out of bounds"]
        ELSE IF DenseGate /\ complete /\ regular
        THEN [base EXCEPT !.status = "AssertionError",
                          !.msg = "not yet reliable on scan up vs down"]
        ELSE IF TagAt(ls, first) # "VSET"
        THEN [base EXCEPT !.status = "ValueError",
                          !.msg = "malformed VSET header",
                          !.tag = TagAt(ls, first)]
        ELSE [base EXCEPT !.status = "ok", !.reader = "ARDFForceMapReader",
                          !.vtype = ls[first].vtype]

\* polls counts the calls of a cancel_poller; the operations of this
\* reader take none and make none
NoTrav ==
    [op |-> "none", r |-> 0, ptr |-> 0, status |-> "idle", met |-> "",
     out |-> <<>>, polls |-> 0]

\* chunks linked forward, but for one whose next offset leads anywhere; at
\* most one carries the tag TOFF; trace and retrace alternate or not
MakeLinks(bend, to, odd, both) ==
    [k \in 1..NumChunks |->
        [tag |-> IF k = odd THEN "TOFF" ELSE "VSET",
         line |-> (k - 1) \div GridPoints,
         vtype |-> IF both /\ k % 2 = 0 THEN 11 ELSE 10,
         next |-> IF k = bend THEN to ELSE k + 1]]

PointerChoices == {<<1>>, <<1, 2>>, <<1, 2, 3>>, <<1, 3, 2>>}

InitChain ==
    /\ \E bend \in 1..NumChunks, to \in Positions, odd \in 0..NumChunks,
          both \in BOOLEAN :
         links = MakeLinks(bend, to, odd, both)
    /\ sel = NoSel
    /\ trav = NoTrav

IdleChain ==
    /\ links = <<>>
    /\ sel = NoSel
    /\ trav = NoTrav

\* the VTOC chunk of a scan over the rows at pointers that was interrupted
\* after written of them: the entries of the other rows are zero-filled
VtocOf(ls, pointers, written) ==
    [kind |-> "volume",
     hdr |-> [size |-> HeaderSize, name |-> "VTOC", ok |-> TRUE],
     size |-> HeaderSize + Len(pointers) * VolumeStride,
     nentries |-> Len(pointers), stride |-> VolumeStride,
     recs |-> [i \in 1..Len(pointers) |->
                 IF i <= written
                 THEN [GoodRec("volume", i) EXCEPT
                         !.ptr = pointers[i],
                         !.line = IF pointers[i] \in 1..Len(ls)
                                  THEN ls[pointers[i]].line ELSE 0]
                 ELSE ZeroRec]]

\* vtoc_arr["line"], vtoc_arr["point"], vtoc_arr["pointer"]
Column(entries, field) == [i \in 1..Len(entries) |-> entries[i][field]]

\* parse_volm from the unpack of the VTOC on
ParseVolm(nsets, pointers, written) ==
    /\ sel.status = "none"
    /\ \E t \in {VtocOf(links, pointers, written)} :
         \E v \in {UnpackVolume(t)} :
            sel' = IF v.status # "ok"
                   THEN [NoSel EXCEPT !.status = v.status, !.vtoc = t]
                   ELSE [SelectReader(links, nsets, Column(v.entries, "ptr"))
                           EXCEPT !.vtoc = t,
                                  !.lines = Column(v.entries, "line"),
                                  !.points = Column(v.entries, "point")]
    /\ UNCHANGED <<links, trav>>

Ready == sel.status = "ok" /\ trav.status # "walking"

\* get_curve(r, c) from the row pointer the bisection gave
StartGetCurve(r, i) ==
    /\ Ready
    /\ i \in 1..Len(sel.pointers)
    /\ trav' = [NoTrav EXCEPT !.op = "get_curve", !.r = r,
                              !.ptr = sel.pointers[i], !.status = "walking"]
    /\ UNCHANGED <<links, sel>>

\* iter_curves() or get_all_curves() from self.vtoc.pointers[0]
StartFromFirst(op) ==
    /\ Ready
    /\ trav' = [NoTrav EXCEPT !.op = op, !.ptr = sel.pointers[1],
                              !.status = "walking"]
    /\ UNCHANGED <<links, sel>>

\* one iteration of the while True of traverse_vsets, with what its caller
\* does with the node
StepWalk ==
    /\ trav.status = "walking"
    /\ IF TagAt(links, trav.ptr) # "VSET"
       THEN trav' = [trav EXCEPT !.status = "done",
                                 !.met = TagAt(links, trav.ptr)]
       ELSE LET nd == links[trav.ptr]
            IN  IF trav.op = "get_curve"
                THEN IF nd.line # trav.r
                     THEN trav' = [trav EXCEPT !.status = "done"]
                     ELSE trav' = [trav EXCEPT !.ptr = nd.next]
                ELSE trav' = [trav EXCEPT
                        !.ptr = nd.next,
                        !.out = IF nd.vtype = sel.vtype /\ Len(@) < MaxOut
                                THEN Append(@, trav.ptr) ELSE @]
    /\ UNCHANGED <<links, sel>>

NextChain ==
    \/ \E nsets \in {GridPoints * GridLines - 1, GridPoints * GridLines},
          pointers \in PointerChoices :
          \E written \in 0..Len(pointers) :
             ParseVolm(nsets, pointers, written)
                /\ UNCHANGED <<cacheVars, chunkVars, tocVars, readerVars, brukerVars>>
    \/ \E r \in 0..(GridLines - 1), i \in 1..NumChunks :
          StartGetCurve(r, i)
             /\ UNCHANGED <<cacheVars, chunkVars, tocVars, readerVars, brukerVars>>
    \/ \E op \in {"iter_curves", "get_all_curves"} :
          StartFromFirst(op)
             /\ UNCHANGED <<cacheVars, chunkVars, tocVars, readerVars, brukerVars>>
    \/ StepWalk /\ UNCHANGED <<cacheVars, chunkVars, tocVars, readerVars, brukerVars>>

-----------------------------------------------------------------------------
(* Nanoscope force volumes: FFVWorker.get_force_curve on the samples of one *)
(* pixel.  Arrays are sequences; position i of the code is position i + 1.  *)

MaxSamples == 4

\* the values of a raw sample
SampleVals == {-1, 0, 2}

\* the values of defl_sens; the hard scale of the deflection channel and
\* the height scale are those of one file
SensVals == {1, 2}
DeflHardScale == 3
ZScale == 5

\* self.d_ints[r, c] * defl_scale: a new array, the mapping is only read
Scaled(a, scale) == [i \in 1..Len(a) |-> a[i] * scale]

\* a[start::-1]
RevSlice(a, start) ==
    LET st == IF start < 0 THEN start + Len(a) ELSE Min(start, Len(a) - 1)
    IN  IF st < 0 THEN <<>> ELSE [i \in 1..(st + 1) |-> a[st + 2 - i]]

\* a[start:]
Tail1(a, start) == PySlice(a, Min(start, Len(a)), Len(a))

\* a[:stop]
Head1(a, stop) == PySlice(a, 0, stop)

\* d[:s] = v, v of the length of d[:s] or of length 1; else ValueError
AssignHead(d, s, v) ==
    LET k == Len(Head1(d, s))
    IN  IF Len(v) = k THEN [ok |-> TRUE, d |-> v \o Tail1(d, s)]
        ELSE IF Len(v) = 1
        THEN [ok |-> TRUE, d |-> [i \in 1..k |-> v[1]] \o Tail1(d, s)]
        ELSE [ok |-> FALSE, d |-> d]

RECURSIVE CopyBackward(_, _, _)
CopyBackward(d, s, i) ==
    IF i > Min(s, Len(d)) THEN d
    ELSE CopyBackward([d EXCEPT ![i] = d[s + 1 - i]], s, i + 1)

MirrorHeadUnbuffered(d, s) ==
    IF s >= 1 /\ s <= Len(d) THEN [ok |-> TRUE, d |-> CopyBackward(d, s, 1)]
    ELSE [ok |-> FALSE, d |-> d]

\* d[:s] = d[s - 1 :: -1]: the right side overlaps the left, and the
\* assignment reads it as it was before
MirrorHead(d, s) == AssignHead(d, s, RevSlice(d, s - 1))

\* np.roll(d, shift)
Roll(d, shift) ==
    [i \in 1..Len(d) |-> d[((i - 1 - shift) % Len(d)) + 1]]

NoCurve ==
    [status |-> "none", sens |-> 0, sync |-> 0, z |-> <<>>, d |-> <<>>]

\* FFVWorker.get_force_curve
FFVGetForceCurve(dmem, zmem, s, defl_sens, sync_dist) ==
    LET defl_scale == defl_sens * DeflHardScale
        m == MirrorHead(Scaled(dmem, defl_scale), s)
        d == IF sync_dist # 0 THEN Roll(m.d, -sync_dist) ELSE m.d
        z == Scaled(zmem, ZScale)
    IN  IF ~m.ok
        THEN [NoCurve EXCEPT !.status = "ValueError", !.sens = defl_sens,
                             !.sync = sync_dist]
        ELSE [status |-> "ok", sens |-> defl_sens, sync |-> sync_dist,
              z |-> <<RevSlice(z, s - 1), Tail1(z, s)>>,
              d |-> <<Head1(d, s), Tail1(d, s)>>]

\* the curves of a file: n samples of which the first split are the approach
InitBruker ==
    /\ \E n \in 1..MaxSamples :
         /\ dInts \in [1..n -> SampleVals]
         /\ zInts \in {[i \in 1..n |-> i], [i \in 1..n |-> n - i]}
         /\ split \in 1..n
    /\ fc = NoCurve

IdleBruker ==
    /\ dInts = <<>>
    /\ zInts = <<>>
    /\ split = 0
    /\ fc = NoCurve

\* get_force_curve(r, c, defl_sens, sync_dist); FFVWorker is built with
\* sync_dist 0, the method takes any
GetForceCurve(defl_sens, sync_dist) ==
    /\ fc' = FFVGetForceCurve(dInts, zInts, split, defl_sens, sync_dist)
    /\ UNCHANGED <<dInts, zInts, split>>

NextBruker ==
    \E defl_sens \in SensVals, sync_dist \in 0..1 :
        GetForceCurve(defl_sens, sync_dist)
           /\ UNCHANGED <<cacheVars, chunkVars, tocVars, readerVars, chainVars>>

-----------------------------------------------------------------------------

InitCache(n) ==
    /\ cache = [p \in Paths |-> NoEntry]
    /\ locked = {}
    /\ nOpens = 0
    /\ parses = [p \in Paths |-> 0]
    /\ evicts = [p \in Paths |-> 0]
    /\ idle = [p \in Paths |-> 0]
    /\ obj = [o \in Objs |-> NewObj]
    /\ watcher = [w \in Ids |-> NoWatcher]
    /\ nThreads = n
    /\ closed = {}

IdleCache == InitCache(0)

Init == InitCache(NumThreads) /\ IdleChunk /\ IdleToc /\ IdleReader /\ IdleChain
    /\ IdleBruker

InitSeq == InitCache(1) /\ IdleChunk /\ IdleToc /\ IdleReader /\ IdleChain
    /\ IdleBruker

WatcherStep(w) ==
    \/ WatcherStart(w)
    \/ WatcherAcquired(w)
    \/ WatcherTimeout(w)
    \/ WatcherEvict(w)

NextCache ==
    \/ \E o \in Objs : Lookup(o) /\ UNCHANGED <<chunkVars, tocVars, readerVars, chainVars, brukerVars>>
    \/ \E o \in Objs : OpenAndStore(o) /\ UNCHANGED <<chunkVars, tocVars, readerVars, chainVars, brukerVars>>
    \/ \E o \in Objs : Release(o) /\ UNCHANGED <<chunkVars, tocVars, readerVars, chainVars, brukerVars>>
    \/ \E o \in Objs : Ainitialize(o) /\ UNCHANGED <<chunkVars, tocVars, readerVars, chainVars, brukerVars>>
    \/ \E w \in Ids : WatcherStart(w) /\ UNCHANGED <<chunkVars, tocVars, readerVars, chainVars, brukerVars>>
    \/ \E w \in Ids : WatcherAcquired(w) /\ UNCHANGED <<chunkVars, tocVars, readerVars, chainVars, brukerVars>>
    \/ \E w \in Ids : WatcherTimeout(w) /\ UNCHANGED <<chunkVars, tocVars, readerVars, chainVars, brukerVars>>
    \/ \E w \in Ids : WatcherEvict(w) /\ UNCHANGED <<chunkVars, tocVars, readerVars, chainVars, brukerVars>>
    \/ Tick /\ UNCHANGED <<chunkVars, tocVars, readerVars, chainVars, brukerVars>>

Next == NextCache

\* the calls of a session that also closes its file objects
NextClose ==
    \/ NextCache
    \/ \E o \in Objs : AClose(o) /\ UNCHANGED <<chunkVars, tocVars, readerVars, chainVars, brukerVars>>

Spec == Init /\ [][Next]_vars

SpecClose == Init /\ [][NextClose]_vars

InitChunkSpec == InitChunk /\ IdleCache /\ IdleToc /\ IdleReader /\ IdleChain
    /\ IdleBruker

SpecChunk == InitChunkSpec /\ [][NextChunk]_vars

InitTocSpec == InitToc /\ IdleCache /\ IdleChunk /\ IdleReader /\ IdleChain
    /\ IdleBruker

SpecToc == InitTocSpec /\ [][NextToc]_vars

InitReaderSpec == InitReader /\ IdleCache /\ IdleChunk /\ IdleToc /\ IdleChain
    /\ IdleBruker

SpecReader == InitReaderSpec /\ [][NextReader]_vars

InitChainSpec == InitChain /\ IdleCache /\ IdleChunk /\ IdleToc /\ IdleReader
    /\ IdleBruker

InitBrukerSpec ==
    InitBruker /\ IdleCache /\ IdleChunk /\ IdleToc /\ IdleReader /\ IdleChain

SpecBruker == InitBrukerSpec /\ [][NextBruker]_vars

\* A caller that started an operation lets it run: the loop keeps stepping.
SpecChain ==
    /\ InitChainSpec
    /\ [][NextChain]_vars
    /\ WF_vars(StepWalk /\ UNCHANGED <<cacheVars, chunkVars, tocVars, readerVars, brukerVars>>)

\* One caller thread; the watcher threads and the clock always get to run.
SpecSeq ==
    /\ InitSeq
    /\ [][Next]_vars
    /\ WF_vars(Tick /\ UNCHANGED <<chunkVars, tocVars, readerVars, chainVars, brukerVars>>)
    /\ \A w \in Ids : WF_vars(WatcherStep(w) /\ UNCHANGED <<chunkVars, tocVars, readerVars, chainVars, brukerVars>>)

-----------------------------------------------------------------------------
(* Resource cache: properties *)

Done(o) == obj[o].pc = "done"

Reattached(o) == Done(o) /\ obj[o].kind = "setstate"

\* No eviction of the path from the start of either call to the end of either.
NoEvictionAcross(a, b) ==
    /\ obj[a].path = obj[b].path
    /\ obj[a].evStart = obj[a].evEnd
    /\ obj[b].evStart = obj[b].evEnd
    /\ obj[a].evStart = obj[b].evStart

\* C1: two __setstate__ calls for the same path, made one after the other
\* with no eviction of the path in between, give both file objects the same
\* mapping and the same worker, and at most one of them opened and parsed.
C1_SameHandle ==
    \A a, b \in Objs :
        (a # b /\ Reattached(a) /\ Reattached(b) /\ NoEvictionAcross(a, b)) =>
            /\ obj[a].mm = obj[b].mm
            /\ obj[a].worker = obj[b].worker
            /\ ~(obj[a].parsed /\ obj[b].parsed)

C1_Witness ==
    \E a, b \in Objs :
        /\ a # b /\ Reattached(a) /\ Reattached(b) /\ NoEvictionAcross(a, b)
        /\ obj[a].parsed /\ ~obj[b].parsed
        /\ obj[a].mm = obj[b].mm

\* C2: once a full window has passed since the last __setstate__ of a cached
\* path, the watcher removes the entry and exits; a __setstate__ that finds
\* the path uncached opens a new mapping and parses once more.
C2_EvictThenReparse ==
    /\ \A p \in Paths :
         (cache[p] # NoEntry /\ idle[p] = Window)
            ~> (/\ cache[p] = NoEntry
                /\ \A w \in Ids : watcher[w].path = p =>
                                     watcher[w].pc \in {"done", "failed"})
    /\ [][\A o \in Objs :
            /\ (obj[o].pc = "new" /\ obj'[o].kind = "setstate"
                  /\ cache[obj'[o].path] = NoEntry) => obj'[o].pc = "miss"
            /\ (obj[o].pc = "miss" /\ obj'[o].pc # "miss") =>
                  /\ parses'[obj[o].path] = parses[obj[o].path] + 1
                  /\ obj'[o].mm = nOpens + 1
                  /\ obj'[o].mm \notin {obj[x].mm : x \in Objs}]_vars

C2_Witness ==
    \E o \in Objs :
        /\ Reattached(o) /\ obj[o].parsed
        /\ obj[o].evStart >= 1
        /\ parses[obj[o].path] >= 2

\* C3: no interleaving of __setstate__ calls on an uncached path runs the
\* opening sequence twice for one cold start of the path.
C3_OneOpeningPerColdStart ==
    \A a, b \in Objs :
        (/\ a # b
         /\ obj[a].kind = "setstate" /\ obj[b].kind = "setstate"
         /\ obj[a].path = obj[b].path
         /\ obj[a].parsed /\ obj[b].parsed) =>
            obj[a].evStart # obj[b].evStart

\* C4: an entry is removed only when a full window has passed since the
\* last __setstate__ that found it cached (or stored it).
C4_NoEvictionBeforeWindow ==
    [][\A p \in Paths :
         (cache[p] # NoEntry /\ cache'[p] = NoEntry) => idle[p] = Window]_vars

\* C5: a __setstate__ on a cached path whose lock is not held completes
\* normally with the mapping and worker it read, and changes neither the
\* cache nor the lock.
C5_ReleaseSwallowed ==
    [][\A o \in Objs :
         (obj[o].pc = "hit" /\ obj'[o].pc # "hit" /\ obj[o].lock \notin locked) =>
            /\ obj'[o].pc = "done"
            /\ obj'[o].mm = obj[o].mm /\ obj'[o].mm # 0
            /\ obj'[o].worker = obj[o].worker
            /\ cache' = cache
            /\ locked' = locked]_vars

C5_Witness ==
    \E o \in Objs : Done(o) /\ obj[o].swallowed /\ cache[obj[o].path].mm = obj[o].mm

-----------------------------------------------------------------------------
(* Chunk header: properties *)

\* the positions offset+4 <= i < offset+size of the buffer, counted from 0
InRange(h, i) == h.offset + 4 <= i /\ i < h.offset + h.size

RangeBytes(buf, h) ==
    LET idx == {i \in 0..(Len(buf) - 1) : InRange(h, i)}
    IN  [k \in 1..Cardinality(idx) |-> buf[h.offset + 4 + k]]

\* C7: validate returns True exactly when the stored checksum is the CRC-32
\* of the bytes at offset+4 .. offset+size-1, and raises an error carrying
\* the header otherwise; after a success, a change of one byte in that range
\* makes validate of the same header raise.
C7_ValidateIffCrc ==
    vres.out # "none" =>
        /\ vres.out = "ok" <=> hdr.crc = Crc32(RangeBytes(data, hdr))
        /\ vres.out # "ok" => (vres.out = "raise" /\ vres.carried = hdr)
        /\ (/\ okData # <<>>
            /\ Cardinality(Diffs(data, okData)) = 1
            /\ \E i \in Diffs(data, okData) : InRange(hdr, i - 1))
              => vres.out = "raise"

\* a valid chunk validated, one byte of its checksummed range changed,
\* validated again
C7_Witness ==
    /\ vres.out = "raise"
    /\ okData # <<>>
    /\ Cardinality(Diffs(data, okData)) = 1
    /\ \E i \in Diffs(data, okData) : InRange(hdr, i - 1)

-----------------------------------------------------------------------------
(* Tables of contents: properties *)

Unpacked == tocOut.by # "none"

Before(log, a, b) ==
    \A j \in 1..Len(log) : log[j] = b => \E k \in 1..(j - 1) : log[k] = a

Chunks(log) == {log[j].of : j \in 1..Len(log)}

\* C8: in every unpack, the payload of a chunk (the pre-body of the table's
\* own header chunk, the pointer or columns of an entry) is used only after
\* validate succeeded on that chunk.
C8_ValidateBeforeUse ==
    Unpacked =>
        \A c \in Chunks(tocOut.res.log) :
            Before(tocOut.res.log, Validated(c), Used(c))

ConsistentTriple(t, kind) ==
    /\ t.stride = KindStride(kind)
    /\ t.nentries * t.stride + HeaderSize = t.size

\* C9: unpack of each kind fails on a declared (size, entry_count, stride)
\* that breaks entry_count * stride + 32 == size or has another stride than
\* the kind's, having read no entry record; whatever it returns satisfies
\* the equation with the kind's stride.
C9_TripleChecked ==
    Unpacked =>
        /\ ~ConsistentTriple(tocIn, tocOut.by) =>
              /\ tocOut.res.status \notin {"ok", "none"}
              /\ \A j \in 1..Len(tocOut.res.log) : tocOut.res.log[j].ev # "read"
        /\ tocOut.res.status = "ok" =>
              /\ ConsistentTriple(tocIn, tocOut.by)
              /\ Len(tocOut.res.entries) <= tocIn.nentries

\* an inconsistent triple behind a header that passes, with entry records
\* present, refused by the assertion
C9_Witness ==
    /\ Unpacked
    /\ tocOut.res.status = "AssertionError"
    /\ tocIn.stride = KindStride(tocOut.by)
    /\ tocIn.nentries * tocIn.stride + HeaderSize # tocIn.size
    /\ Len(tocIn.recs) > 0

-----------------------------------------------------------------------------
(* Pointer-chase reader: properties *)

\* C10: for every in-range (r, c), what get_curve(r, c) returned is the
\* curve (height approach/retract, deflection approach/retract) that
\* iter_curves yielded under the key (r, c).
C10_GetEqualsIter ==
    \A px \in Pixels :
        /\ lastGet.r = px[1]
        /\ lastGet.c = px[2]
        /\ yielded[px] # NoLocals
        => /\ lastGet.status = "ok"
           /\ lastGet.curve = yielded[px]

\* every node of the volume carries the data of every channel
AllChannelsStored ==
    \A k \in 1..Len(vol.chain) :
        Len(vol.chain[k].vdats) = Cardinality(DOMAIN vol.channels)

\* on volumes whose nodes all carry every channel, get_curve and iter_curves
\* agree
GetEqualsIterOnFullNodes == AllChannelsStored => C10_GetEqualsIter

LastM(a, m) == SubSeq(a, Len(a) - m + 1, Len(a))

FirstM(a, m) == SubSeq(a, 1, m)

TrimPair(xr, m) == <<LastM(xr[1], m), FirstM(xr[2], m)>>

\* C11: for every in-range (r, c), the entry of get_all_curves() at (r, c)
\* is what get_curve(r, c) returned, trimmed to the minimum approach length
\* m: the last m samples of the approach and the first m of the retract,
\* for height and for deflection.
C11_AllEqualsGetTrimmed ==
    \A px \in Pixels :
        /\ allRes.status = "ok"
        /\ lastGet.status # "none"
        /\ lastGet.r = px[1]
        /\ lastGet.c = px[2]
        => /\ lastGet.status = "ok"
           /\ allRes.x[px].zxr = TrimPair(lastGet.curve.zxr, allRes.minext)
           /\ allRes.x[px].dxr = TrimPair(lastGet.curve.dxr, allRes.minext)

\* the volume has a channel named Raw beside ZSnsr
HasRaw == "Raw" \in DOMAIN vol.channels

\* where get_curve reads the height from ZSnsr as well and returned a curve,
\* the two agree
AllEqualsGetTrimmedOnZSnsr ==
    \A px \in Pixels :
        /\ allRes.status = "ok"
        /\ ~HasRaw
        /\ lastGet.status = "ok"
        /\ lastGet.r = px[1]
        /\ lastGet.c = px[2]
        => /\ allRes.x[px].zxr = TrimPair(lastGet.curve.zxr, allRes.minext)
           /\ allRes.x[px].dxr = TrimPair(lastGet.curve.dxr, allRes.minext)

CacheFilled == \E key \in Keys : seen[key] # 0

OffGrid == GetInputs \ Pixels

\* C12: get_curve(r, c) with r or c outside the grid raises the index error
\* whatever the traversal cache holds, having searched no line column,
\* walked no chain and left the cache as it was.
C12_OutOfRangeRaisesFirst ==
    /\ \A rc \in OffGrid :
          LET res == GetCurveOf(vol, seen, rc[1], rc[2])
          IN  /\ res.status = "ValueError"
              /\ ~res.bisected
              /\ res.walked = 0
              /\ res.seen = seen
    /\ <<lastGet.r, lastGet.c>> \in OffGrid /\ lastGet.status # "none" =>
          /\ lastGet.status = "ValueError"
          /\ ~lastGet.bisected
          /\ lastGet.walked = 0

\* get_curve(lines, 0) refused on a reader whose cache is populated
C12_Witness ==
    /\ lastGet.r = NumLines
    /\ lastGet.status = "ValueError"
    /\ CacheFilled

RowStored(r) == \E j \in 1..Len(vol.vtoc.lines) : vol.vtoc.lines[j] = r

StrictlyMonotonic(a) ==
    \/ \A j \in 1..(Len(a) - 1) : a[j] < a[j + 1]
    \/ \A j \in 1..(Len(a) - 1) : a[j] > a[j + 1]

\* C14: with a strictly monotonic line column, ascending or descending,
\* get_curve for a pixel not yet cached starts its chain walk at the pointer
\* of the entry whose line is r, and takes the placeholder path when no
\* entry has line r.
C14_BisectionFindsRow ==
    StrictlyMonotonic(vol.vtoc.lines) =>
        /\ \A px \in Pixels :
              seen[<<px[1], px[2], vol.vtype>>] = 0 =>
                 LET res == GetCurveOf(vol, seen, px[1], px[2])
                 IN  /\ res.bisected
                     /\ \A j \in 1..Len(vol.vtoc.lines) :
                           vol.vtoc.lines[j] = px[1] =>
                              res.start = vol.vtoc.pointers[j]
                     /\ ~RowStored(px[1]) => res.status = "nan" /\ res.start = 0
        /\ lastGet.bisected =>
              /\ \A j \in 1..Len(vol.vtoc.lines) :
                    vol.vtoc.lines[j] = lastGet.r =>
                       lastGet.start = vol.vtoc.pointers[j]
              /\ ~RowStored(lastGet.r) => lastGet.status = "nan"

\* a descending line column of two or more entries, and a row found at an
\* entry that is not the first
C14_Witness ==
    /\ Len(vol.vtoc.lines) >= 2
    /\ vol.vtoc.lines[1] > vol.vtoc.lines[2]
    /\ lastGet.bisected
    /\ lastGet.status = "ok"
    /\ lastGet.start = vol.vtoc.pointers[2]

EmptyCache == [key \in Keys |-> 0]

Outcome(res) == <<res.status, res.curve, res.shape>>

-----------------------------------------------------------------------------
(* Volume parsing and chain traversal: properties *)

\* C15: wherever a VSET chunk is required (the first node at volume parse,
\* each node reached through a next-node offset during traversal), a chunk
\* with another tag such as TOFF raises the malformed-chunk error, which
\* names the expected tag and carries the actual one.
C15_NonVsetRaises ==
    /\ (sel.status # "none" /\ sel.pointers # <<>>
          /\ TagAt(links, sel.pointers[1]) = "TOFF") =>
          /\ sel.status = "ValueError"
          /\ sel.msg = "malformed VSET header"
          /\ sel.tag = "TOFF"
    /\ trav.met = "TOFF" => trav.status = "ValueError"

\* C17: parse_volm never selects the dense-stride reader: for every volume
\* whose first row pointer leads to a VSET, complete with regularly spaced
\* row pointers or not, it returns with the pointer-chase reader.
C17_PointerChaseSelected ==
    /\ sel.reader \in {"none", "ARDFForceMapReader"}
    /\ (sel.status # "none" /\ sel.pointers # <<>>
          /\ TagAt(links, sel.pointers[1]) = "VSET") =>
          /\ sel.status = "ok"
          /\ sel.reader = "ARDFForceMapReader"

\* a complete volume with three regularly spaced row pointers, parsed
C17_Witness ==
    /\ sel.status = "ok"
    /\ sel.complete
    /\ sel.regular
    /\ Len(sel.pointers) >= 3

\* C19: every reader operation terminates: get_curve, iter_curves run to
\* its end and get_all_curves finish after finitely many chain steps, also
\* when next-node offsets point backward or form a cycle.
C19_EveryOperationEnds == (trav.status = "walking") ~> (trav.status = "done")

NoRepeats(q) == \A i, j \in 1..Len(q) : q[i] = q[j] => i = j

\* C20: iter_curves yields a finite sequence in chain order from the first
\* volume-TOC pointer: each node of the reader's kind once, no node of
\* another kind.
C20_EachNodeOnceInChainOrder ==
    trav.op = "iter_curves" =>
        /\ NoRepeats(trav.out)
        /\ \A i \in 1..Len(trav.out) : links[trav.out[i]].vtype = sel.vtype
        /\ trav.status = "done" =>
              \A i, j \in 1..Len(trav.out) : i < j => trav.out[i] < trav.out[j]

RowsLoaded == {links[trav.out[i]].line : i \in 1..Len(trav.out)}

\* C18: get_all_curves of the pointer-chase reader checks for cancellation
\* at least once per row it loads.
C18_PollsEveryRow ==
    trav.op = "get_all_curves" /\ trav.status = "done" =>
        trav.polls >= Cardinality(RowsLoaded)

ForwardLinked == \A k \in 1..Len(links) : links[k].next > k

\* where every next-node offset leads forward, iter_curves ends, having
\* yielded each node of the reader's kind on its way once, in chain order
IterOrderOnForwardChains ==
    ForwardLinked => C20_EachNodeOnceInChainOrder

-----------------------------------------------------------------------------

\* C21: after any sequence of get_curve, iter_curves and get_all_curves calls
\* the traversal cache only grows: an index once bound stays bound to the same
\* node, and every index equals the line, point and kind of its node.
C21_CacheOnlyGrows ==
    /\ [](\A key \in Keys :
             seen[key] # 0 => NodeKey(vol.chain[seen[key]]) = key)
    /\ [][\A key \in Keys : seen[key] # 0 => seen'[key] = seen[key]]_vars

\* all three operations have run and the cache holds several nodes
C21_Witness ==
    /\ lastGet.status = "ok"
    /\ gen.status = "running"
    /\ allRes.status = "ok"
    /\ Cardinality({key \in Keys : seen[key] # 0}) >= 3

\* the node at which the row walk of the last get_curve stopped: the first
\* node of another row, if the chain did not end before
StopNode == lastGet.start + lastGet.walked - 1

\* C22 as stated: from an empty cache, after get_curve(r, c) every index in
\* the cache has line r.
C22_OnlyRowCached ==
    [][(seen = EmptyCache /\ lastGet' # lastGet) =>
          \A key \in Keys : seen'[key] # 0 => key[1] = lastGet'.r]_vars

\* C22 amended: from an empty cache, after get_curve(r, c) every index in
\* the cache has line r, except the index of the one node of another row at
\* which the walk stopped; every node of row r from the row's pointer on is
\* in the cache.
C22_RowAndStopNodeCached ==
    [][(seen = EmptyCache /\ lastGet' # lastGet) =>
          /\ \A key \in Keys :
                (seen'[key] # 0 /\ key[1] # lastGet'.r) =>
                    /\ lastGet'.walked >= 1
                    /\ seen'[key] = lastGet'.start + lastGet'.walked - 1
          /\ \A k \in 1..Len(vol.chain) :
                (lastGet'.start # 0 /\ k >= lastGet'.start
                   /\ \A j \in lastGet'.start..k :
                         vol.chain[j].line = lastGet'.r) =>
                    seen'[NodeKey(vol.chain[k])] = k]_vars

\* one get_curve on a fresh reader walked a row and cached the node after it
C22_Witness ==
    /\ gen = NoGen
    /\ allRes = NoAll
    /\ lastGet.status = "ok"
    /\ lastGet.walked >= 2
    /\ \E key \in Keys :
          key[1] # lastGet.r /\ seen[key] # 0 /\ seen[key] = StopNode
    /\ \A key \in Keys :
          seen[key] # 0 => (key[1] = lastGet.r \/ seen[key] = StopNode)

\* the nodes get_all_curves stores: those of the reader's kind
KindNodes == {k \in 1..Len(vol.chain) : vol.chain[k].vtype = vol.vtype}

\* the data chunks of node k that hold channel ch
ChunksOf(k, ch) ==
    {i \in 1..Len(vol.chain[k].vdats) :
        ch \in DOMAIN vol.channels
        /\ vol.chain[k].vdats[i].channel = vol.channels[ch]}

\* the approach-segment lengths of the height and deflection data
Approaches ==
    UNION {{vol.chain[k].vdats[i].seg_offsets[2] :
               i \in ChunksOf(k, "ZSnsr") \cup ChunksOf(k, "Defl")} :
           k \in KindNodes}

\* the samples of a at positions lo .. hi - 1, none of them missing
Samples(a, lo, hi) ==
    IF 0 <= lo /\ lo <= hi /\ hi <= Len(a)
    THEN [i \in 1..(hi - lo) |-> a[lo + i]]
    ELSE <<>>

\* C23: get_all_curves() trims to the minimum approach-segment length m of
\* the height and deflection data over all pixels, and the entry of the pixel
\* of every node holds the samples [s - m, s + m) of that node's height and
\* deflection data, s being the node's split point: 2m samples for every
\* pixel.
C23_SymmetricWindow ==
    allRes.status = "ok" =>
       /\ \A a \in Approaches : allRes.minext <= a
       /\ allRes.minext \in Approaches
       /\ \A k \in KindNodes :
             LET nd == vol.chain[k]
                 m == allRes.minext
                 e == allRes.x[<<nd.line, nd.point>>]
             IN  /\ \E i \in ChunksOf(k, "ZSnsr") :
                        LET s1 == nd.vdats[i].seg_offsets[2]
                        IN  e.zxr[1] \o e.zxr[2] =
                               Samples(GetNdarray(nd.vdats[i]), s1 - m, s1 + m)
                 /\ \E i \in ChunksOf(k, "Defl") :
                        LET s1 == nd.vdats[i].seg_offsets[2]
                        IN  e.dxr[1] \o e.dxr[2] =
                               Samples(GetNdarray(nd.vdats[i]), s1 - m, s1 + m)
                 /\ Len(e.zxr[1] \o e.zxr[2]) = 2 * m
                 /\ Len(e.dxr[1] \o e.dxr[2]) = 2 * m

\* on volumes whose nodes all carry every channel the window is the
\* symmetric one
SymmetricWindowOnFullNodes == AllChannelsStored => C23_SymmetricWindow

\* C24: get_all_curves() reads the height from the configured height channel
\* (Raw when the volume has it, else ZSnsr) and the deflection from Defl, as
\* get_curve and iter_curves do: where get_curve returned a curve or
\* iter_curves yielded one, get_all_curves() succeeds and its entry of that
\* pixel is that curve trimmed to the minimum approach length.
C24_SameChannels ==
    allRes.status # "none" =>
       \A px \in Pixels :
          /\ (lastGet.status = "ok" /\ lastGet.r = px[1] /\ lastGet.c = px[2])
               => /\ allRes.status = "ok"
                  /\ allRes.x[px].zxr =
                        TrimPair(lastGet.curve.zxr, allRes.minext)
                  /\ allRes.x[px].dxr =
                        TrimPair(lastGet.curve.dxr, allRes.minext)
          /\ yielded[px] # NoLocals
               => /\ allRes.status = "ok"
                  /\ allRes.x[px].zxr = TrimPair(yielded[px].zxr, allRes.minext)
                  /\ allRes.x[px].dxr = TrimPair(yielded[px].dxr, allRes.minext)

\* on volumes without a channel named Raw whose nodes all carry every
\* channel, the three operations agree
SameChannelsWithoutRaw == (~HasRaw /\ AllChannelsStored) => C24_SameChannels

-----------------------------------------------------------------------------
(* Tables of contents: the scan of the entry records *)

\* the generic unpack got as far as its loop over the entry records
GenericScanned ==
    /\ tocOut.by = "generic"
    /\ tocIn.hdr.size = HeaderSize
    /\ tocIn.hdr.ok
    /\ ConsistentTriple(tocIn, "generic")
    /\ Len(tocIn.recs) >= tocIn.nentries

\* the declared records ahead of the first one with a null pointer
AheadOfNull ==
    {i \in 1..tocIn.nentries : \A j \in 1..i : tocIn.recs[j].ptr # 0}

\* C25: the generic unpack returns, in record order, exactly the records
\* ahead of the first one with a null pointer; that record ends the scan
\* without error and no record after it is read.  Every entry returned has
\* a tag among IMAG, VOLM, NEXT, THMB, NSET and a checksum that matches; a
\* record with a pointer and another tag, when the scan gets to it, makes
\* unpack fail.
C25_ScanToFirstNullPointer ==
    GenericScanned =>
       LET res == tocOut.res
           k == Cardinality(AheadOfNull)
       IN  /\ res.status = "ok" =>
                 /\ res.entries = SubSeq(tocIn.recs, 1, k)
                 /\ \A i \in 1..k : /\ res.entries[i].name \in GenericTags
                                     /\ res.entries[i].ok
           /\ (\A i \in 1..k : tocIn.recs[i].name \in GenericTags
                                 /\ tocIn.recs[i].ok)
                 => res.status = "ok"
           /\ (\E i \in 1..k : tocIn.recs[i].name \notin GenericTags)
                 => res.status \notin {"ok", "none"}
           /\ \A j \in 1..Len(res.log) :
                 res.log[j].ev = "read" => res.log[j].of <= k + 1

\* a record with a null pointer, a foreign tag and a checksum that does not
\* match ends the scan after one entry, and the unpack returns that entry
C25_Witness ==
    /\ GenericScanned
    /\ tocIn.nentries = 2
    /\ tocIn.recs[2].ptr = 0
    /\ tocIn.recs[2].name \notin GenericTags
    /\ ~tocIn.recs[2].ok
    /\ tocOut.res.status = "ok"
    /\ tocOut.res.entries = <<tocIn.recs[1]>>

\* the entries of the scanned VTOC ahead of the first with a zero checksum
ZeroChecksum(r) == r.crc = 0

Written(t) ==
    Cardinality({i \in 1..t.nentries :
                    \A j \in 1..i : ~ZeroChecksum(t.recs[j])})

\* C26: on the VTOC of an interrupted scan the line, point and pointer
\* columns have the same length k, the index of the first entry with a zero
\* checksum (the entry count if there is none), and hold the first k
\* entries in order; the zero-filled tail raises no error, and volume
\* parsing completes without an index failure, also for k = 0.
C26_TruncatedColumns ==
    sel.status # "none" =>
       LET k == Written(sel.vtoc)
       IN  /\ sel.status # "IndexError"
           /\ Len(sel.lines) = k
           /\ Len(sel.points) = k
           /\ Len(sel.pointers) = k
           /\ \A i \in 1..k : /\ sel.lines[i] = sel.vtoc.recs[i].line
                               /\ sel.points[i] = sel.vtoc.recs[i].point
                               /\ sel.pointers[i] = sel.vtoc.recs[i].ptr

\* when at least one entry was written the columns are the written entries
TruncatedColumnsOfWrittenRows ==
    (sel.status # "none" /\ Written(sel.vtoc) >= 1) => C26_TruncatedColumns

-----------------------------------------------------------------------------
(* Nanoscope force volumes: properties *)

\* C27: get_force_curve of the direct-height worker with split s and sync
\* distance 0 returns as approach deflection the first s raw samples in
\* mirrored order, approach[i] = scale * raw[s - 1 - i], as retract
\* deflection raw[s:] in its order, scaled, of lengths s and n - s; the raw
\* samples in the mapping are not modified.
C27_ApproachMirrored ==
    /\ [](fc.status # "none" /\ fc.sync = 0 =>
            LET scale == fc.sens * DeflHardScale
                n == Len(dInts)
            IN  /\ fc.status = "ok"
                /\ Len(fc.d[1]) = split
                /\ Len(fc.d[2]) = n - split
                /\ \A i \in 0..(split - 1) :
                      fc.d[1][i + 1] = scale * dInts[(split - 1 - i) + 1]
                /\ \A i \in split..(n - 1) :
                      fc.d[2][i - split + 1] = scale * dInts[i + 1])
    /\ [][dInts' = dInts /\ zInts' = zInts]_vars

\* a curve of four samples that is no palindrome in its approach half,
\* split after the third, read with sync distance 0
C27_Witness ==
    /\ fc.status = "ok"
    /\ fc.sync = 0
    /\ Len(dInts) = 4
    /\ split = 3
    /\ dInts[1] # dInts[3]
    /\ fc.d[1][1] = fc.sens * DeflHardScale * dInts[3]

-----------------------------------------------------------------------------
(* Resource cache: the watcher's removal *)

\* C28: under any interleaving of __setstate__ calls and watchers, a
\* watcher whose acquire timed out finds in the cache the entry whose lock
\* it was waiting on: its del does not fail on a missing key and does not
\* remove an entry that a later open of the path created.
C28_WatcherRemovesOwnEntry ==
    \A w \in Ids :
        /\ watcher[w].pc # "failed"
        /\ watcher[w].pc = "evict" =>
              /\ cache[watcher[w].path] # NoEntry
              /\ cache[watcher[w].path].lock = watcher[w].lock

\* C29: while a path's entry is in the cache the mapping stored in it is
\* open: aclose() on a file object that got its mapping from the cache
\* leaves no closed mapping in the cache for a later __setstate__, nor in
\* another file object that shares it.
C29_CachedMappingOpen ==
    /\ \A p \in Paths : cache[p] # NoEntry => cache[p].mm \notin closed
    /\ \A o \in Objs : obj[o].pc = "done" => obj[o].mm \notin closed

\* a file object opened by ainitialize closes a mapping nobody shares
DirectCloseIsPrivate ==
    \A o \in Objs :
        (obj[o].pc = "closed" /\ obj[o].kind = "direct") =>
            /\ \A p \in Paths : cache[p].mm # obj[o].mm
            /\ \A x \in Objs : x # o => obj[x].mm # obj[o].mm

-----------------------------------------------------------------------------
(* Pointer-chase reader: curves of interrupted scans *)

\* the nodes of the reader's kind stored for a pixel
NodesOf(px) ==
    {k \in KindNodes : vol.chain[k].line = px[1] /\ vol.chain[k].point = px[2]}

\* the two halves of the samples of data chunk i of node k
Halves(k, i) ==
    LET vdat == vol.chain[k].vdats[i]
        a == GetNdarray(vdat)
    IN  <<PySlice(a, 0, vdat.seg_offsets[2]),
          PySlice(a, vdat.seg_offsets[2], vdat.seg_offsets[3])>>

\* the curve is made of the height and deflection chunks of node k
OwnData(curve, k) ==
    /\ \E i \in ChunksOf(k, Zname(vol.channels)) : curve.zxr = Halves(k, i)
    /\ \E i \in ChunksOf(k, "Defl") : curve.dxr = Halves(k, i)

\* C30: get_curve(r, c) for in-range (r, c) returns a curve or the NaN
\* placeholder and never fails on a missing node or missing channel data,
\* also when the chain of row r ends before point c; and every curve that
\* get_curve returns or iter_curves yields for a node is made of that
\* node's own height and deflection chunks.
C30_CurveOrPlaceholder ==
    /\ lastGet.status # "none" /\ <<lastGet.r, lastGet.c>> \in Pixels =>
          /\ lastGet.status \in {"ok", "nan"}
          /\ lastGet.status = "ok" =>
                \E k \in NodesOf(<<lastGet.r, lastGet.c>>) :
                    OwnData(lastGet.curve, k)
    /\ gen.status \notin {"UnboundLocalError", "KeyError"}
    /\ \A px \in Pixels :
          yielded[px] # NoLocals =>
             \E k \in NodesOf(px) : OwnData(yielded[px], k)

\* for a pixel whose node is stored with every channel, get_curve returns
\* the node's own data
CurveOfStoredPixel ==
    (lastGet.status # "none" /\ <<lastGet.r, lastGet.c>> \in Pixels
       /\ \E k \in NodesOf(<<lastGet.r, lastGet.c>>) :
             Len(vol.chain[k].vdats) = Cardinality(DOMAIN vol.channels))
    => /\ lastGet.status = "ok"
       /\ \E k \in NodesOf(<<lastGet.r, lastGet.c>>) : OwnData(lastGet.curve, k)

=============================================================================
